---- MODULE Spec2Model ----
(***************************************************************************)
(* Model of src/server.py: the test-newsapi-mcp MCP server.                *)
(*                                                                         *)
(* The module models                                                       *)
(*   - the import-time configuration (SERVER_ADDRESS, API_KEY),            *)
(*   - the registration of the one tool, search_everything, together with  *)
(*     the price its require_payment_for_tool decorator declares,          *)
(*   - create_app_with_middleware: the D402 configuration, the two         *)
(*     add_middleware calls and the /health route,                         *)
(*   - the path of one HTTP request through the middleware stack, and      *)
(*   - the body of search_everything around its single requests.get.       *)
(*                                                                         *)
(* The payment library (traia_iatp.d402) is not part of the repository:    *)
(* its decision procedure is modelled from section 4.2 of the              *)
(* specification (Evaluate), and get_active_api_key is modelled by the     *)
(* outcomes a Python call can have (a value, None, or an exception).       *)
(***************************************************************************)
EXTENDS Integers, Sequences, FiniteSets, TLC

\* ------------------------------------------------------------------ bounds

\* Number of HTTP requests the model lets the server receive.
MaxCalls == 2

\* ------------------------------------------------------------ Python values

\* Python's None, a str and an int, kept apart by their shape.
PyNone == [t |-> "none"]
PyStr(s) == [t |-> "str", s |-> s]
PyInt(n) == [t |-> "int", n |-> n]

\* An environment variable that is not set (os.getenv returns None).
Unset == "<unset>"

\* Truthiness of an environment string: None and "" are falsy.
Truthy(v) == v # Unset /\ v # ""

\* os.getenv(name, default)
GetenvDefault(v, default) == IF v = Unset THEN default ELSE v

\* a or b, on environment strings
PyOr(a, b) == IF Truthy(a) THEN a ELSE b

\* str.lower() on the values the testing-mode flag is drawn from
Lower(s) ==
    CASE s = "TRUE" -> "true"
      [] s = "True" -> "true"
      [] s = "FALSE" -> "false"
      [] OTHER -> s

\* --------------------------------------------------------- the environment

Address == "0xSERVER"
InternalKey == "internal-key"
FacilitatorUrl == "https://facilitator.example"

Environments ==
    [ SERVER_ADDRESS : {Unset, "", Address},
      TEST_NEWSAPI_MCP_API_KEY : {Unset, InternalKey},
      D402_TESTING_MODE : {Unset, "TRUE", "false"},
      FACILITATOR_URL : {Unset, FacilitatorUrl},
      D402_FACILITATOR_URL : {Unset} ]

\* ------------------------------------------------------------------- state

VARIABLES
    env,                  \* the process environment (os.environ)
    pc,                   \* position of the process: import, configured, ...
    SERVER_ADDRESS,       \* module global, line 56
    API_KEY,              \* module global, line 60
    tools,                \* tools registered on mcp, name -> declared price
    user_middleware,      \* app.user_middleware, outermost first
    routes,               \* routes added to the app by create_app_with_middleware
    middleware_config,    \* keyword arguments given to D402PaymentMiddleware
    calls                 \* the HTTP requests received so far, in arrival order

vars == <<env, pc, SERVER_ADDRESS, API_KEY, tools, user_middleware, routes,
          middleware_config, calls>>

NoConfig == [set |-> FALSE]

Init ==
    /\ env \in Environments
    /\ pc = "import"
    /\ SERVER_ADDRESS = Unset
    /\ API_KEY = Unset
    /\ tools = << >>
    /\ user_middleware = << >>
    /\ routes = {}
    /\ middleware_config = NoConfig
    /\ calls = << >>

\* ----------------------------------------------------- import-time startup

\* Variant of ServerAddressMissing that tests "is None" where the code tests
\* "not SERVER_ADDRESS": an empty address is let through.
ServerAddressIsNone(v) == v = Unset

\* Lines 56-58: SERVER_ADDRESS = os.getenv("SERVER_ADDRESS");
\* if not SERVER_ADDRESS: raise ValueError(...)
ServerAddressMissing(v) == ~Truthy(v)

\* Lines 53-69: the module's configuration block.
LoadConfig ==
    /\ pc = "import"
    /\ IF ServerAddressMissing(env.SERVER_ADDRESS)
         THEN /\ pc' = "aborted"
              /\ UNCHANGED <<SERVER_ADDRESS, API_KEY>>
         ELSE /\ pc' = "configured"
              /\ SERVER_ADDRESS' = env.SERVER_ADDRESS
              /\ API_KEY' = env.TEST_NEWSAPI_MCP_API_KEY
    /\ UNCHANGED <<env, tools, user_middleware, routes, middleware_config, calls>>

\* ------------------------------------------------------ tool registration

\* Lines 99-110: the price the require_payment_for_tool decorator declares.
DeclaredPrice ==
    [ amount |-> "2000",
      asset |-> "0x1c7D4B196Cb0C7B01d743Fbc6116a902379C7238",
      decimals |-> 6,
      network |-> "sepolia",
      eip712 |-> [name |-> "IATPWallet", version |-> "1"] ]

\* Lines 72 and 97-113: mcp = FastMCP(...), then @mcp.tool() registers the
\* decorated search_everything, whose decorator carries the price.
RegisterTool ==
    /\ pc = "configured"
    /\ pc' = "registered"
    /\ tools' = ("search_everything" :> [price |-> DeclaredPrice])
    /\ UNCHANGED <<env, SERVER_ADDRESS, API_KEY, user_middleware, routes,
                   middleware_config, calls>>

\* ------------------------------------------- create_app_with_middleware

\* Variant of ExtractPaymentConfigs that gives every tool a fixed default price
\* and ignores the price the decorator declares.
ExtractDefaultPrice(registered, address) ==
    [ name \in DOMAIN registered |->
        [price |-> [DeclaredPrice EXCEPT !.amount = "1000"], pay_to |-> address] ]

\* Line 228: extract_payment_configs_from_mcp(mcp, SERVER_ADDRESS): one
\* payment config per decorated tool, holding the decorator's price.
ExtractPaymentConfigs(registered, address) ==
    [ name \in DOMAIN registered |->
        [price |-> registered[name].price, pay_to |-> address] ]

\* Line 232: os.getenv("FACILITATOR_URL") or os.getenv("D402_FACILITATOR_URL")
FacilitatorUrlOf(e) == PyOr(e.FACILITATOR_URL, e.D402_FACILITATOR_URL)

\* Line 235: os.getenv("D402_TESTING_MODE", "false").lower() == "true"
TestingModeOf(e) == Lower(GetenvDefault(e.D402_TESTING_MODE, "false")) = "true"

\* Line 246: if not facilitator_url and not testing_mode: raise ValueError
FacilitatorMissing(e) == ~Truthy(FacilitatorUrlOf(e)) /\ ~TestingModeOf(e)

\* app.add_middleware(cls, ...): Starlette inserts the new middleware at the
\* head of app.user_middleware, and the head of that list is the outermost
\* layer of the stack it builds: the middleware added last sees a request
\* first.
AddMiddleware(stack, layer) == <<layer>> \o stack

\* Variant of BuildMiddleware without the second add_middleware call.
BuildMiddlewareNoGate(stack) == AddMiddleware(stack, "CORS")

\* Lines 260-282: the two add_middleware calls, in the order of the code.
BuildMiddleware(stack) == AddMiddleware(AddMiddleware(stack, "CORS"), "D402")

\* Lines 211-299: create_app_with_middleware, called from line 313.
CreateApp ==
    /\ pc = "registered"
    /\ IF FacilitatorMissing(env)
         THEN /\ pc' = "aborted"
              /\ UNCHANGED <<user_middleware, routes, middleware_config>>
         ELSE /\ pc' = "app_ready"
              /\ user_middleware' = BuildMiddleware(user_middleware)
              /\ middleware_config' =
                    [ set |-> TRUE,
                      tool_payment_configs |->
                          ExtractPaymentConfigs(tools, SERVER_ADDRESS),
                      server_address |-> SERVER_ADDRESS,
                      internal_api_key |-> API_KEY,
                      testing_mode |-> TestingModeOf(env),
                      facilitator_url |-> FacilitatorUrlOf(env) ]
              /\ routes' = {"/mcp", "/health"}
    /\ UNCHANGED <<env, SERVER_ADDRESS, API_KEY, tools, calls>>

\* Lines 316-321: uvicorn.run(app, ...): the server starts to listen.
Run ==
    /\ pc = "app_ready"
    /\ pc' = "serving"
    /\ UNCHANGED <<env, SERVER_ADDRESS, API_KEY, tools, user_middleware, routes,
                   middleware_config, calls>>

\* ------------------------------------------------- search_everything: data

\* Lines 116-127: the parameters of search_everything after context.
ParamNames ==
    {"q", "qInTitle", "sources", "domains", "excludeDomains", "from_", "to",
     "language", "sortBy", "searchIn", "pageSize", "page"}

\* Lines 116-127: the default each parameter declares.
Default(p) ==
    CASE p = "language" -> PyStr("en")
      [] p = "sortBy" -> PyStr("publishedAt")
      [] p = "pageSize" -> PyInt(20)
      [] p = "page" -> PyInt(1)
      [] OTHER -> PyNone

\* Python's binding of a call's keyword arguments to the signature.
BindArguments(supplied) ==
    [ p \in ParamNames |->
        IF p \in DOMAIN supplied THEN supplied[p] ELSE Default(p) ]

\* Variant of BuildParams that keeps the Python name from_ as the key.
BuildParamsNoRename(a) ==
    [ q |-> a.q,
      qInTitle |-> a.qInTitle,
      sources |-> a.sources,
      domains |-> a.domains,
      excludeDomains |-> a.excludeDomains,
      from_ |-> a.from_,
      to |-> a.to,
      language |-> a.language,
      sortBy |-> a.sortBy,
      searchIn |-> a.searchIn,
      pageSize |-> a.pageSize,
      page |-> a.page ]

\* Lines 172-185: the params dict.
BuildParams(a) ==
    [ q |-> a.q,
      qInTitle |-> a.qInTitle,
      sources |-> a.sources,
      domains |-> a.domains,
      excludeDomains |-> a.excludeDomains,
      from |-> a.from_,
      to |-> a.to,
      language |-> a.language,
      sortBy |-> a.sortBy,
      searchIn |-> a.searchIn,
      pageSize |-> a.pageSize,
      page |-> a.page ]

Digit(d) ==
    CASE d = 0 -> "0" [] d = 1 -> "1" [] d = 2 -> "2" [] d = 3 -> "3"
      [] d = 4 -> "4" [] d = 5 -> "5" [] d = 6 -> "6" [] d = 7 -> "7"
      [] d = 8 -> "8" [] d = 9 -> "9"

RECURSIVE IntToStr(_)
\* str(n) for n >= 0
IntToStr(n) == IF n < 10 THEN Digit(n) ELSE IntToStr(n \div 10) \o Digit(n % 10)

\* The text requests puts in the query string for one value.
ToQueryValue(v) == IF v.t = "int" THEN IntToStr(v.n) ELSE v.s

\* requests.get(url, params=params): a key whose value is None is not added
\* to the query string; every other value is sent as its text.
EncodeQuery(params) ==
    [ k \in {k \in DOMAIN params : params[k] # PyNone} |-> ToQueryValue(params[k]) ]

NoHeaders == [h \in {} |-> ""]

\* Lines 186-188: headers = {}; if api_key: headers["Authorization"] = ...
BuildHeaders(api_key) ==
    IF Truthy(api_key) THEN [Authorization |-> "Bearer " \o api_key] ELSE NoHeaders

\* Lines 171 and 190-195: the one requests.get of the handler.
OutboundRequest(supplied, api_key) ==
    [ method |-> "GET",
      url |-> "https://newsapi.org/v2/everything",
      query |-> EncodeQuery(BuildParams(BindArguments(supplied))),
      headers |-> BuildHeaders(api_key),
      timeout |-> 30 ]

\* What requests.get, raise_for_status and response.json() can produce.
Payload == [status |-> "ok", totalResults |-> 1]

UpstreamOutcomes ==
    { [kind |-> "ok", json |-> Payload],
      [kind |-> "http_error", message |-> "401 Client Error"],
      [kind |-> "timeout", message |-> "Read timed out"],
      [kind |-> "connection_error", message |-> "Connection refused"],
      [kind |-> "bad_json", message |-> "Expecting value"] }

\* Lines 196-202: raise_for_status, return response.json(), and the except
\* clause that turns every exception of the try block into an error dict.
HandlerResult(outcome) ==
    IF outcome.kind = "ok"
      THEN outcome.json
      ELSE [error |-> outcome.message, endpoint |-> "/everything"]

\* ------------------------------------------------------------- the requests

Tool == "search_everything"
Health == "/health"
Targets == {Tool, Health}

\* What a caller presents: nothing, the server's own API key, a payment proof
\* that verifies, or one that does not.
Credentials == {"none", "api_key", "valid_proof", "invalid_proof"}

NoArgs == [p \in {} |-> PyNone]

\* search_everything(q="ai")
QOnly == "q" :> PyStr("ai")

\* A call that names a source, a start date, a language and a page size.
Rich ==
    ("sources" :> PyStr("bbc-news")) @@ ("from_" :> PyStr("2025-12-01"))
        @@ ("language" :> PyStr("es")) @@ ("pageSize" :> PyInt(50))

Request(target, cred, supplied) ==
    [target |-> target, cred |-> cred, supplied |-> supplied]

\* The requests the modelled clients send.
Requests ==
    { Request(Health, "none", NoArgs),
      Request(Health, "api_key", NoArgs),
      Request(Tool, "none", QOnly),
      Request(Tool, "invalid_proof", QOnly),
      Request(Tool, "api_key", QOnly),
      Request(Tool, "valid_proof", QOnly),
      Request(Tool, "api_key", NoArgs),
      Request(Tool, "valid_proof", Rich) }

Undecided == [kind |-> "Undecided"]
NoResponse == [kind |-> "none"]
NoOutcome == [kind |-> "none"]

NewCall(r) ==
    [ target |-> r.target,
      cred |-> r.cred,
      supplied |-> r.supplied,
      stage |-> "in_stack",
      pos |-> 1,
      trace |-> << >>,
      decision |-> Undecided,
      outbound |-> << >>,
      upstream |-> NoOutcome,
      resp |-> NoResponse ]

\* The ASGI stack Starlette builds: the user middleware, then the router.
Stack == user_middleware \o <<"router">>

startup == <<env, pc, SERVER_ADDRESS, API_KEY, tools, user_middleware, routes,
             middleware_config>>

\* A client sends a request; uvicorn accepts it once the server listens.
Receive ==
    /\ pc = "serving"
    /\ Len(calls) < MaxCalls
    /\ \E r \in Requests : calls' = Append(calls, NewCall(r))
    /\ UNCHANGED startup

\* ----------------------------------------------------------- Payment Gate

\* D402PaymentMiddleware's decision, from section 4.2 of the specification:
\* the server's own key admits, else a verified payment proof admits, else
\* the call is rejected with the tool's price.
Evaluate(cred, internal_api_key, config) ==
    IF cred = "api_key" /\ Truthy(internal_api_key)
      THEN [kind |-> "Admitted", reason |-> "api-key"]
    ELSE IF cred = "valid_proof"
      THEN [kind |-> "Admitted", reason |-> "verified-payment"]
    ELSE [kind |-> "Rejected", price |-> config.price]

\* The HTTP 402 response of the gate.
PaymentRequired(decision, config) ==
    [ kind |-> "payment_required",
      status |-> 402,
      amount |-> decision.price.amount,
      asset |-> decision.price.asset,
      network |-> decision.price.network,
      pay_to |-> config.pay_to ]

\* Lines 271-281: the D402PaymentMiddleware layer handles request c.  A
\* request for a tool that has a payment config is decided; any other
\* request is handed to the next layer.
PaymentMiddleware(c) ==
    LET call == calls[c]
        cfgs == middleware_config.tool_payment_configs
    IN  /\ call.stage = "in_stack"
        /\ Stack[call.pos] = "D402"
        /\ IF call.target \in DOMAIN cfgs
             THEN LET d == Evaluate(call.cred, middleware_config.internal_api_key,
                                    cfgs[call.target])
                  IN  IF d.kind = "Rejected"
                        THEN calls' = [calls EXCEPT ![c] =
                                 [call EXCEPT !.trace = Append(@, "D402"),
                                              !.decision = d,
                                              !.stage = "done",
                                              !.resp = PaymentRequired(d, cfgs[call.target])]]
                        ELSE calls' = [calls EXCEPT ![c] =
                                 [call EXCEPT !.trace = Append(@, "D402"),
                                              !.decision = d,
                                              !.pos = @ + 1]]
             ELSE calls' = [calls EXCEPT ![c] =
                      [call EXCEPT !.trace = Append(@, "D402"), !.pos = @ + 1]]
        /\ UNCHANGED startup

\* Lines 261-267: the CORSMiddleware layer handles request c and hands it on.
CorsMiddleware(c) ==
    LET call == calls[c]
    IN  /\ call.stage = "in_stack"
        /\ Stack[call.pos] = "CORS"
        /\ calls' = [calls EXCEPT ![c] =
                        [call EXCEPT !.trace = Append(@, "CORS"), !.pos = @ + 1]]
        /\ UNCHANGED startup

\* ----------------------------------------------------------------- routes

\* Lines 287-296: health_check.
HealthCheck(c) ==
    LET call == calls[c]
    IN  /\ call.stage = "in_stack"
        /\ Stack[call.pos] = "router"
        /\ call.target = Health
        /\ Health \in routes
        /\ calls' = [calls EXCEPT ![c] =
              [call EXCEPT !.trace = Append(@, "health_check"),
                           !.stage = "done",
                           !.resp = [ kind |-> "healthy",
                                      status |-> 200,
                                      content |-> [ status |-> "healthy",
                                                    service |-> "test-newsapi-mcp-mcp-server",
                                                    timestamp |-> "now" ] ]]]
        /\ UNCHANGED startup

\* Line 168: get_active_api_key(context), a call into the payment library
\* made before the try block.  It yields the key that is active for the
\* call (the caller's key, or the server's own key for a paid call, None when
\* there is none), or it raises.
ActiveKey(call) ==
    IF call.decision.kind = "Admitted" /\ call.decision.reason = "api-key"
      THEN InternalKey
    ELSE IF call.decision.kind = "Admitted" THEN API_KEY
    ELSE Unset

KeyOutcomes(call) ==
    { [raised |-> TRUE], [raised |-> FALSE, key |-> ActiveKey(call)] }

\* Lines 166-195: search_everything up to the requests.get it blocks in.
SearchEverything(c) ==
    LET call == calls[c]
    IN  /\ call.stage = "in_stack"
        /\ Stack[call.pos] = "router"
        /\ call.target = Tool
        /\ Tool \in DOMAIN tools
        /\ \E k \in KeyOutcomes(call) :
             IF k.raised
               THEN calls' = [calls EXCEPT ![c] =
                        [call EXCEPT !.trace = Append(@, "search_everything"),
                                     !.stage = "done",
                                     !.resp = [ kind |-> "raised",
                                                where |-> "get_active_api_key" ]]]
               ELSE calls' = [calls EXCEPT ![c] =
                        [call EXCEPT !.trace = Append(@, "search_everything"),
                                     !.stage = "in_flight",
                                     !.outbound = Append(@,
                                         OutboundRequest(call.supplied, k.key))]]
        /\ UNCHANGED startup

\* Lines 190-202: requests.get comes back (or raises) and the handler
\* returns.
SearchEverythingReturn(c) ==
    LET call == calls[c]
    IN  /\ call.stage = "in_flight"
        /\ \E o \in UpstreamOutcomes :
             calls' = [calls EXCEPT ![c] =
                 [call EXCEPT !.stage = "done",
                              !.upstream = o,
                              !.resp = [kind |-> "returned", value |-> HandlerResult(o)]]]
        /\ UNCHANGED startup

\* ------------------------------------------------------------ specification

Next ==
    \/ LoadConfig
    \/ RegisterTool
    \/ CreateApp
    \/ Run
    \/ Receive
    \/ \E c \in DOMAIN calls : PaymentMiddleware(c)
    \/ \E c \in DOMAIN calls : CorsMiddleware(c)
    \/ \E c \in DOMAIN calls : HealthCheck(c)
    \/ \E c \in DOMAIN calls : SearchEverything(c)
    \/ \E c \in DOMAIN calls : SearchEverythingReturn(c)

Spec == Init /\ [][Next]_vars

\* ------------------------------------------------------------------ claims

CallIds == DOMAIN calls

Range(f) == {f[i] : i \in DOMAIN f}

\* Position of the first occurrence of a layer in a trace, 0 when absent.
IndexOf(trace, layer) ==
    IF layer \in Range(trace)
      THEN CHOOSE i \in DOMAIN trace :
               trace[i] = layer /\ \A j \in DOMAIN trace : trace[j] = layer => i <= j
      ELSE 0

Admitted(c) == calls[c].decision.kind = "Admitted"

\* C1: a call has an outbound request to the upstream only if the Payment
\* Gate's decision for that call is Admitted, by api-key or by
\* verified-payment; a rejected or undecided call has none.
C1_DispatchOnlyIfAdmitted ==
    \A c \in CallIds :
        calls[c].outbound # << >> =>
            /\ calls[c].decision.kind = "Admitted"
            /\ calls[c].decision.reason \in {"api-key", "verified-payment"}

\* A state where one call was admitted and reached the upstream while
\* another was rejected and answered without an outbound request.
C1_Witness ==
    \E c, d \in CallIds :
        /\ Admitted(c) /\ Len(calls[c].outbound) = 1
        /\ calls[d].decision.kind = "Rejected"
        /\ calls[d].stage = "done"
        /\ calls[d].outbound = << >>

RequiredGroup == {"q", "sources", "domains"}

\* C2: an admitted invocation of search_everything that supplies none of q,
\* sources and domains gets a validation rejection and issues no outbound
\* request.
C2_MissingRequiredRejected ==
    \A c \in CallIds :
        ( /\ calls[c].target = Tool
          /\ Admitted(c)
          /\ RequiredGroup \cap DOMAIN calls[c].supplied = {} ) =>
            /\ calls[c].outbound = << >>
            /\ calls[c].stage = "done" => calls[c].resp.kind = "validation_error"

\* C3: every admitted invocation of search_everything that has finished made
\* exactly one outbound call, so the outbound calls of the finished
\* invocations are as many as the admitted ones.
C3_OneOutboundPerInvocation ==
    \A c \in CallIds :
        (calls[c].target = Tool /\ Admitted(c) /\ calls[c].stage = "done") =>
            Len(calls[c].outbound) = 1

\* C4: every admitted invocation of search_everything that has finished ended
\* in a returned value, and that value carries an error message whenever a
\* step of the handler failed; the handler never raised.
C4_NeverRaises ==
    \A c \in CallIds :
        (calls[c].target = Tool /\ Admitted(c) /\ calls[c].stage = "done") =>
            /\ calls[c].resp.kind = "returned"
            /\ calls[c].upstream.kind # "ok" => "error" \in DOMAIN calls[c].resp.value

\* C5: a request to /health does not pass through the Payment Gate, and its
\* response is the healthy status, never a payment-required rejection.
C5_HealthBypassesGate ==
    \A c \in CallIds :
        calls[c].target = Health =>
            /\ "D402" \notin Range(calls[c].trace)
            /\ calls[c].stage = "done" => calls[c].resp.kind = "healthy"

C7_RefusesToStartWithoutAddress ==
    env.SERVER_ADDRESS \in {Unset, ""} =>
        /\ pc \in {"import", "aborted"}
        /\ tools = << >>
        /\ user_middleware = << >>
        /\ routes = {}
        /\ middleware_config = NoConfig
        /\ calls = << >>

\* A state where startup has aborted on an empty SERVER_ADDRESS.
C7_Witness == env.SERVER_ADDRESS = "" /\ pc = "aborted"

\* C8: with D402_TESTING_MODE not set, testing mode is on, so startup does
\* not abort for a missing facilitator URL.
C8_TestingModeDefaultsOn ==
    (env.D402_TESTING_MODE = Unset /\ env.SERVER_ADDRESS = Address) =>
        /\ pc # "aborted"
        /\ middleware_config.set => middleware_config.testing_mode

\* C9: every response the server produces has passed through the CORS layer,
\* which handles a request before the payment middleware does.
C9_CorsBeforePayment ==
    \A c \in CallIds :
        calls[c].resp.kind \in {"payment_required", "healthy", "returned"} =>
            /\ "CORS" \in Range(calls[c].trace)
            /\ "D402" \in Range(calls[c].trace) =>
                   IndexOf(calls[c].trace, "CORS") < IndexOf(calls[c].trace, "D402")

\* The name each parameter has in the upstream API.
ApiName(p) == IF p = "from_" THEN "from" ELSE p

\* The query text of the defaults the signature declares.
DeclaredDefaultText ==
    [language |-> "en", sortBy |-> "publishedAt", pageSize |-> "20", page |-> "1"]

\* C10: the one outbound GET of an invocation carries every supplied
\* parameter with its supplied value and every omitted parameter that has a
\* declared default with that default (q="ai" alone sends q=ai, language=en,
\* pageSize=20, page=1), and a successful upstream payload is returned
\* unchanged.
C10_ParametersForwarded ==
    \A c \in CallIds :
        LET call == calls[c] IN
        /\ Len(call.outbound) <= 1
        /\ \A i \in DOMAIN call.outbound :
             LET r == call.outbound[i] IN
             /\ r.method = "GET"
             /\ \A p \in ParamNames :
                  /\ p \in DOMAIN call.supplied =>
                       /\ ApiName(p) \in DOMAIN r.query
                       /\ r.query[ApiName(p)] = ToQueryValue(call.supplied[p])
                  /\ (p \notin DOMAIN call.supplied /\ p \in DOMAIN DeclaredDefaultText) =>
                       /\ ApiName(p) \in DOMAIN r.query
                       /\ r.query[ApiName(p)] = DeclaredDefaultText[p]
             /\ call.supplied = QOnly =>
                  /\ r.query.q = "ai"
                  /\ r.query.language = "en"
                  /\ r.query.pageSize = "20"
                  /\ r.query.page = "1"
        /\ call.upstream.kind = "ok" =>
             /\ call.resp.kind = "returned"
             /\ call.resp.value = call.upstream.json

\* A state where search_everything(q="ai") has returned the upstream payload
\* and a call with a start date and a page size has been sent upstream.
C10_Witness ==
    \E c, d \in CallIds :
        /\ calls[c].supplied = QOnly
        /\ calls[c].upstream.kind = "ok"
        /\ calls[c].resp.kind = "returned"
        /\ calls[d].supplied = Rich
        /\ Len(calls[d].outbound) = 1

====
